---- MODULE Spec2Model ----
(***************************************************************************)
(* Model of caravel/db_engine_specs.py: the engine-spec classes, the       *)
(* `engines` registry built by a dict comprehension over the module        *)
(* globals, and the classmethods called on the registered specs.           *)
(*                                                                         *)
(* Python strings are TLA+ strings (sequences of characters); the methods  *)
(* str.replace, str.upper, `in`, strftime and isoformat are computed       *)
(* character by character.  A call's outcome is a record: a returned       *)
(* value or a raised exception.                                            *)
(***************************************************************************)
EXTENDS Integers, Sequences, FiniteSets, TLC

VARIABLES
    classes,   \* the class objects of the module: name -> [base, attrs]
    pending,   \* globals().values() not yet visited by the comprehension
    acc,       \* the dict the comprehension is accumulating
    phase,     \* "building" while the comprehension runs, then "sealed"
    engines,   \* the module global `engines` (bound when the build ends)
    last       \* the last call made on the registry or on a spec

vars == <<classes, pending, acc, phase, engines, last>>

-----------------------------------------------------------------------------
(* Python string primitives *)

\* old in s
RECURSIVE Contains(_, _)
Contains(s, old) ==
    IF Len(s) < Len(old) THEN FALSE
    ELSE IF SubSeq(s, 1, Len(old)) = old THEN TRUE
    ELSE Contains(SubSeq(s, 2, Len(s)), old)

\* s.replace(old, new): every non-overlapping occurrence, left to right
RECURSIVE Replace(_, _, _)
Replace(s, old, new) ==
    IF Len(s) < Len(old) THEN s
    ELSE IF SubSeq(s, 1, Len(old)) = old
         THEN new \o Replace(SubSeq(s, Len(old) + 1, Len(s)), old, new)
         ELSE SubSeq(s, 1, 1) \o Replace(SubSeq(s, 2, Len(s)), old, new)

Lowercase == "abcdefghijklmnopqrstuvwxyz"
Uppercase == "ABCDEFGHIJKLMNOPQRSTUVWXYZ"

UpperChar(c) ==
    IF \E i \in 1..Len(Lowercase) : SubSeq(Lowercase, i, i) = c
    THEN LET i == CHOOSE j \in 1..Len(Lowercase) : SubSeq(Lowercase, j, j) = c
         IN  SubSeq(Uppercase, i, i)
    ELSE c

\* s.upper()
RECURSIVE Upper(_)
Upper(s) ==
    IF Len(s) = 0 THEN s
    ELSE UpperChar(SubSeq(s, 1, 1)) \o Upper(SubSeq(s, 2, Len(s)))

Digit(d) == SubSeq("0123456789", d + 1, d + 1)

\* the decimal digits of n, zero-padded to width w (%Y, %m, %d, %H, %M, %S, %f)
RECURSIVE Pad(_, _)
Pad(n, w) ==
    IF w <= 1 /\ n < 10 THEN Digit(n)
    ELSE Pad(n \div 10, w - 1) \o Digit(n % 10)

\* "'{}'".format(x)
Quote(x) == "'" \o x \o "'"

-----------------------------------------------------------------------------
(* datetime.datetime values (naive) *)

FormatDate(d) == Pad(d.year, 4) \o "-" \o Pad(d.month, 2) \o "-" \o Pad(d.day, 2)
FormatTime(d) == Pad(d.hour, 2) \o ":" \o Pad(d.minute, 2) \o ":" \o Pad(d.second, 2)

\* dttm.strftime('%Y-%m-%d %H:%M:%S')
Strftime(d) == FormatDate(d) \o " " \o FormatTime(d)

\* dttm.isoformat()
Isoformat(d) ==
    FormatDate(d) \o "T" \o FormatTime(d) \o
    (IF d.microsecond = 0 THEN "" ELSE "." \o Pad(d.microsecond, 6))

-----------------------------------------------------------------------------
(* outcomes of a call *)

Return(type, v) == [kind |-> "return", type |-> type, val |-> v]
Raise(exc)      == [kind |-> "raise", type |-> "exception", val |-> exc]

-----------------------------------------------------------------------------
(* the class objects *)

\* Grain = namedtuple('Grain', 'name label function')
Grain(name, label, function) == [name |-> name, label |-> label, function |-> function]

\* flask_babel.lazy_gettext: an opaque lazy string carried through unread
Gettext(s) == [lazy_gettext |-> s]

\* values a class attribute is bound to
Str(s)         == [kind |-> "str", val |-> s]
Tuple(t)       == [kind |-> "tuple", val |-> t]
Classmethod(f) == [kind |-> "classmethod", val |-> f]

BaseEngineSpec ==
    [name |-> "BaseEngineSpec", base |-> "object", attrs |->
        [engine               |-> Str("base"),
         time_grains          |-> Tuple(<< >>),
         epoch_to_dttm        |-> Classmethod("BaseEngineSpec.epoch_to_dttm"),
         epoch_ms_to_dttm     |-> Classmethod("BaseEngineSpec.epoch_ms_to_dttm"),
         extra_table_metadata |-> Classmethod("BaseEngineSpec.extra_table_metadata"),
         convert_dttm         |-> Classmethod("BaseEngineSpec.convert_dttm")]]

PostgresTimeGrains ==
    << Grain("Time Column", Gettext("Time Column"), "{col}"),
       Grain("second", Gettext("second"), "DATE_TRUNC('second', {col})"),
       Grain("minute", Gettext("minute"), "DATE_TRUNC('minute', {col})"),
       Grain("hour", Gettext("hour"), "DATE_TRUNC('hour', {col})"),
       Grain("day", Gettext("day"), "DATE_TRUNC('day', {col})"),
       Grain("week", Gettext("week"), "DATE_TRUNC('week', {col})"),
       Grain("month", Gettext("month"), "DATE_TRUNC('month', {col})"),
       Grain("quarter", Gettext("quarter"), "DATE_TRUNC('quarter', {col})"),
       Grain("year", Gettext("year"), "DATE_TRUNC('year', {col})") >>

PostgresEngineSpec ==
    [name |-> "PostgresEngineSpec", base |-> "BaseEngineSpec", attrs |->
        [engine        |-> Str("postgres"),
         time_grains   |-> Tuple(PostgresTimeGrains),
         epoch_to_dttm |-> Classmethod("PostgresEngineSpec.epoch_to_dttm"),
         convert_dttm  |-> Classmethod("PostgresEngineSpec.convert_dttm")]]

\* mutant: the week grain carries the month grain's template
SqliteTimeGrainsWeekAsMonth ==
    << Grain("Time Column", Gettext("Time Column"), "{col}"),
       Grain("day", Gettext("day"), "DATE({col})"),
       Grain("week", Gettext("week"),
             "DATE({col}, -strftime('%d', {col}) || ' days')"),
       Grain("month", Gettext("month"),
             "DATE({col}, -strftime('%d', {col}) || ' days')") >>

SqliteTimeGrains ==
    << Grain("Time Column", Gettext("Time Column"), "{col}"),
       Grain("day", Gettext("day"), "DATE({col})"),
       Grain("week", Gettext("week"),
             "DATE({col}, -strftime('%w', {col}) || ' days')"),
       Grain("month", Gettext("month"),
             "DATE({col}, -strftime('%d', {col}) || ' days')") >>

SqliteEngineSpec ==
    [name |-> "SqliteEngineSpec", base |-> "BaseEngineSpec", attrs |->
        [engine        |-> Str("sqlite"),
         time_grains   |-> Tuple(SqliteTimeGrains),
         epoch_to_dttm |-> Classmethod("SqliteEngineSpec.epoch_to_dttm"),
         convert_dttm  |-> Classmethod("SqliteEngineSpec.convert_dttm")]]

MySQLTimeGrains ==
    << Grain("Time Column", Gettext("Time Column"), "{col}"),
       Grain("second", Gettext("second"), "DATE_ADD(DATE({col}), "
             \o "INTERVAL (HOUR({col})*60*60 + MINUTE({col})*60"
             \o " + SECOND({col})) SECOND)"),
       Grain("minute", Gettext("minute"), "DATE_ADD(DATE({col}), "
             \o "INTERVAL (HOUR({col})*60 + MINUTE({col})) MINUTE)"),
       Grain("hour", Gettext("hour"), "DATE_ADD(DATE({col}), "
             \o "INTERVAL HOUR({col}) HOUR)"),
       Grain("day", Gettext("day"), "DATE({col})"),
       Grain("week", Gettext("week"), "DATE(DATE_SUB({col}, "
             \o "INTERVAL DAYOFWEEK({col}) - 1 DAY))"),
       Grain("month", Gettext("month"), "DATE(DATE_SUB({col}, "
             \o "INTERVAL DAYOFMONTH({col}) - 1 DAY))") >>

MySQLEngineSpec ==
    [name |-> "MySQLEngineSpec", base |-> "BaseEngineSpec", attrs |->
        [engine        |-> Str("mysql"),
         time_grains   |-> Tuple(MySQLTimeGrains),
         convert_dttm  |-> Classmethod("MySQLEngineSpec.convert_dttm"),
         epoch_to_dttm |-> Classmethod("MySQLEngineSpec.epoch_to_dttm")]]

PrestoTimeGrains ==
    << Grain("Time Column", Gettext("Time Column"), "{col}"),
       Grain("second", Gettext("second"),
             "date_trunc('second', CAST({col} AS TIMESTAMP))"),
       Grain("minute", Gettext("minute"),
             "date_trunc('minute', CAST({col} AS TIMESTAMP))"),
       Grain("hour", Gettext("hour"),
             "date_trunc('hour', CAST({col} AS TIMESTAMP))"),
       Grain("day", Gettext("day"),
             "date_trunc('day', CAST({col} AS TIMESTAMP))"),
       Grain("week", Gettext("week"),
             "date_trunc('week', CAST({col} AS TIMESTAMP))"),
       Grain("month", Gettext("month"),
             "date_trunc('month', CAST({col} AS TIMESTAMP))"),
       Grain("quarter", Gettext("quarter"),
             "date_trunc('quarter', CAST({col} AS TIMESTAMP))"),
       Grain("week_ending_saturday", Gettext("week_ending_saturday"),
             "date_add('day', 5, date_trunc('week', date_add('day', 1, "
             \o "CAST({col} AS TIMESTAMP))))"),
       Grain("week_start_sunday", Gettext("week_start_sunday"),
             "date_add('day', -1, date_trunc('week', "
             \o "date_add('day', 1, CAST({col} AS TIMESTAMP))))") >>

PrestoEngineSpec ==
    [name |-> "PrestoEngineSpec", base |-> "BaseEngineSpec", attrs |->
        [engine        |-> Str("presto"),
         time_grains   |-> Tuple(PrestoTimeGrains),
         convert_dttm  |-> Classmethod("PrestoEngineSpec.convert_dttm"),
         epoch_to_dttm |-> Classmethod("PrestoEngineSpec.epoch_to_dttm")]]

\* mutant: the "5 minute" grain keeps the name of the grain it was copied from
MssqlTimeGrainsDuplicateName ==
    << Grain("Time Column", Gettext("Time Column"), "{col}"),
       Grain("minute", Gettext("minute"), "DATEADD(minute, "
             \o "DATEDIFF(minute, 0, {col}), 0)"),
       Grain("minute", Gettext("5 minute"), "DATEADD(minute, "
             \o "DATEDIFF(minute, 0, {col}) / 5 * 5, 0)") >>

MssqlTimeGrains ==
    << Grain("Time Column", Gettext("Time Column"), "{col}"),
       Grain("second", Gettext("second"), "DATEADD(second, "
             \o "DATEDIFF(second, '2000-01-01', {col}), '2000-01-01')"),
       Grain("minute", Gettext("minute"), "DATEADD(minute, "
             \o "DATEDIFF(minute, 0, {col}), 0)"),
       Grain("5 minute", Gettext("5 minute"), "DATEADD(minute, "
             \o "DATEDIFF(minute, 0, {col}) / 5 * 5, 0)"),
       Grain("half hour", Gettext("half hour"), "DATEADD(minute, "
             \o "DATEDIFF(minute, 0, {col}) / 30 * 30, 0)"),
       Grain("hour", Gettext("hour"), "DATEADD(hour, "
             \o "DATEDIFF(hour, 0, {col}), 0)"),
       Grain("day", Gettext("day"), "DATEADD(day, "
             \o "DATEDIFF(day, 0, {col}), 0)"),
       Grain("week", Gettext("week"), "DATEADD(week, "
             \o "DATEDIFF(week, 0, {col}), 0)"),
       Grain("month", Gettext("month"), "DATEADD(month, "
             \o "DATEDIFF(month, 0, {col}), 0)"),
       Grain("quarter", Gettext("quarter"), "DATEADD(quarter, "
             \o "DATEDIFF(quarter, 0, {col}), 0)"),
       Grain("year", Gettext("year"), "DATEADD(year, "
             \o "DATEDIFF(year, 0, {col}), 0)") >>

\* epoch_to_dttm is bound to a plain string here, not to a classmethod
MssqlEngineSpec ==
    [name |-> "MssqlEngineSpec", base |-> "BaseEngineSpec", attrs |->
        [engine        |-> Str("mssql"),
         epoch_to_dttm |-> Str("dateadd(S, {col}, '1970-01-01')"),
         time_grains   |-> Tuple(MssqlTimeGrains),
         convert_dttm  |-> Classmethod("MssqlEngineSpec.convert_dttm")]]

RedshiftEngineSpec ==
    [name |-> "RedshiftEngineSpec", base |-> "PostgresEngineSpec", attrs |->
        [engine |-> Str("redshift")]]

OracleEngineSpec ==
    [name |-> "OracleEngineSpec", base |-> "PostgresEngineSpec", attrs |->
        [engine       |-> Str("oracle"),
         convert_dttm |-> Classmethod("OracleEngineSpec.convert_dttm")]]

\* mutant: vertica overrides the epoch conversion
VerticaEngineSpecOwnEpoch ==
    [name |-> "VerticaEngineSpec", base |-> "PostgresEngineSpec", attrs |->
        [engine        |-> Str("vertica"),
         epoch_to_dttm |-> Classmethod("MySQLEngineSpec.epoch_to_dttm")]]

VerticaEngineSpec ==
    [name |-> "VerticaEngineSpec", base |-> "PostgresEngineSpec", attrs |->
        [engine |-> Str("vertica")]]

\* the namedtuple class Grain: a class, but no subclass of BaseEngineSpec
GrainClass == [name |-> "Grain", base |-> "tuple", attrs |-> [__slots__ |-> Tuple(<< >>)]]

\* the class statements of the module, in source order
ModuleClasses ==
    << GrainClass, BaseEngineSpec, PostgresEngineSpec, SqliteEngineSpec,
       MySQLEngineSpec, PrestoEngineSpec, MssqlEngineSpec, RedshiftEngineSpec,
       OracleEngineSpec, VerticaEngineSpec >>

ClassNames == { ModuleClasses[i].name : i \in DOMAIN ModuleClasses }

ClassTable ==
    [n \in ClassNames |->
        LET c == ModuleClasses[CHOOSE i \in DOMAIN ModuleClasses : ModuleClasses[i].name = n]
        IN  [base |-> c.base, attrs |-> c.attrs]]

\* module globals that are not classes: the imports
OtherGlobals == {"inspect", "namedtuple", "_"}

\* the names bound in globals() when the comprehension runs
Globals == ClassNames \cup OtherGlobals

-----------------------------------------------------------------------------
(* attribute lookup and the class predicates of the comprehension's filter *)

\* cls.<a>: the first class along the inheritance chain that binds a
RECURSIVE GetAttr(_, _)
GetAttr(cls, a) ==
    IF a \in DOMAIN classes[cls].attrs THEN classes[cls].attrs[a]
    ELSE IF classes[cls].base \in DOMAIN classes THEN GetAttr(classes[cls].base, a)
    ELSE [kind |-> "missing", val |-> "AttributeError"]

\* inspect.isclass(o)
IsClass(o) == o \in DOMAIN classes

\* issubclass(o, b): reflexive, then up the chain of bases
RECURSIVE IsSubclass(_, _)
IsSubclass(o, b) ==
    \/ o = b
    \/ /\ classes[o].base \in DOMAIN classes
       /\ IsSubclass(classes[o].base, b)

-----------------------------------------------------------------------------
(* the classmethods *)

\* placeholder for "no datetime passed"
NoDttm == [year |-> 0, month |-> 0, day |-> 0, hour |-> 0, minute |-> 0,
           second |-> 0, microsecond |-> 0]

NoArgs == [target_type |-> "", dttm |-> NoDttm, table |-> "", grain |-> "", col |-> ""]

RECURSIVE CallMethod(_, _, _)

BaseEngineSpec_epoch_to_dttm(cls) == Raise("NotImplementedError")

BaseEngineSpec_epoch_ms_to_dttm(cls) ==
    LET r == CallMethod(cls, "epoch_to_dttm", NoArgs)
    IN  IF r.kind = "raise" THEN r
        ELSE Return("str", Replace(r.val, "{col}", "({col}/1000.0)"))

BaseEngineSpec_extra_table_metadata(cls, table) == Return("dict", << >>)

BaseEngineSpec_convert_dttm(cls, target_type, dttm) ==
    Return("str", Quote(Strftime(dttm)))

PostgresEngineSpec_epoch_to_dttm(cls) ==
    Return("str", "(timestamp 'epoch' + {col} * interval '1 second')")

PostgresEngineSpec_convert_dttm(cls, target_type, dttm) ==
    Return("str", Quote(Strftime(dttm)))

SqliteEngineSpec_epoch_to_dttm(cls) ==
    Return("str", "datetime({col}, 'unixepoch')")

SqliteEngineSpec_convert_dttm(cls, target_type, dttm) ==
    LET iso0 == Replace(Isoformat(dttm), "T", " ")
        iso  == IF ~Contains(iso0, ".") THEN iso0 \o ".000000" ELSE iso0
    IN  Return("str", Quote(iso))

\* mutant: the target type is compared without upper()
MySQLEngineSpec_convert_dttm_CaseSensitive(cls, target_type, dttm) ==
    IF target_type \in {"DATETIME", "DATE"}
    THEN Return("str", "STR_TO_DATE('" \o Strftime(dttm) \o "', '%Y-%m-%d %H:%i:%s')")
    ELSE Return("str", Quote(Strftime(dttm)))

MySQLEngineSpec_convert_dttm(cls, target_type, dttm) ==
    IF Upper(target_type) \in {"DATETIME", "DATE"}
    THEN Return("str", "STR_TO_DATE('" \o Strftime(dttm) \o "', '%Y-%m-%d %H:%i:%s')")
    ELSE Return("str", Quote(Strftime(dttm)))

MySQLEngineSpec_epoch_to_dttm(cls) == Return("str", "from_unixtime({col})")

PrestoEngineSpec_convert_dttm(cls, target_type, dttm) ==
    IF Upper(target_type) \in {"DATE", "DATETIME"}
    THEN Return("str", "from_iso8601_date('" \o Isoformat(dttm) \o "')")
    ELSE Return("str", Quote(Strftime(dttm)))

PrestoEngineSpec_epoch_to_dttm(cls) == Return("str", "from_unixtime({col})")

\* the body reads the name `iso`, bound neither in the function nor in the
\* module globals nor in the builtins
MssqlEngineSpec_convert_dttm(cls, target_type, dttm) ==
    IF "iso" \in Globals
    THEN Return("str", "CONVERT(DATETIME, '" \o "iso" \o "', 126)")
    ELSE Raise("NameError")

OracleEngineSpec_convert_dttm(cls, target_type, dttm) ==
    Return("str", "TO_TIMESTAMP('" \o Isoformat(dttm)
                  \o "', 'YYYY-MM-DD\"T\"HH24:MI:SS.ff6')")

\* cls.<name>(...): the attribute found along the chain, called with cls bound;
\* calling an attribute that is a str raises TypeError
CallMethod(cls, name, args) ==
    LET f == GetAttr(cls, name)
    IN  IF f.kind # "classmethod" THEN Raise("TypeError")
        ELSE CASE f.val = "BaseEngineSpec.epoch_to_dttm" ->
                    BaseEngineSpec_epoch_to_dttm(cls)
               [] f.val = "BaseEngineSpec.epoch_ms_to_dttm" ->
                    BaseEngineSpec_epoch_ms_to_dttm(cls)
               [] f.val = "BaseEngineSpec.extra_table_metadata" ->
                    BaseEngineSpec_extra_table_metadata(cls, args.table)
               [] f.val = "BaseEngineSpec.convert_dttm" ->
                    BaseEngineSpec_convert_dttm(cls, args.target_type, args.dttm)
               [] f.val = "PostgresEngineSpec.epoch_to_dttm" ->
                    PostgresEngineSpec_epoch_to_dttm(cls)
               [] f.val = "PostgresEngineSpec.convert_dttm" ->
                    PostgresEngineSpec_convert_dttm(cls, args.target_type, args.dttm)
               [] f.val = "SqliteEngineSpec.epoch_to_dttm" ->
                    SqliteEngineSpec_epoch_to_dttm(cls)
               [] f.val = "SqliteEngineSpec.convert_dttm" ->
                    SqliteEngineSpec_convert_dttm(cls, args.target_type, args.dttm)
               [] f.val = "MySQLEngineSpec.convert_dttm" ->
                    MySQLEngineSpec_convert_dttm(cls, args.target_type, args.dttm)
               [] f.val = "MySQLEngineSpec.epoch_to_dttm" ->
                    MySQLEngineSpec_epoch_to_dttm(cls)
               [] f.val = "PrestoEngineSpec.convert_dttm" ->
                    PrestoEngineSpec_convert_dttm(cls, args.target_type, args.dttm)
               [] f.val = "PrestoEngineSpec.epoch_to_dttm" ->
                    PrestoEngineSpec_epoch_to_dttm(cls)
               [] f.val = "MssqlEngineSpec.convert_dttm" ->
                    MssqlEngineSpec_convert_dttm(cls, args.target_type, args.dttm)
               [] f.val = "OracleEngineSpec.convert_dttm" ->
                    OracleEngineSpec_convert_dttm(cls, args.target_type, args.dttm)

\* cls.time_grains: a plain attribute read
ReadTimeGrains(cls) == Return("tuple", GetAttr(cls, "time_grains").val)

-----------------------------------------------------------------------------
(* the registry: a dict from o.engine to o *)

EmptyDict == [k \in {} |-> ""]

\* d[k] = v, as the comprehension stores an item: a later item with an equal
\* key takes the place of the earlier one
DictSet(d, k, v) == [x \in DOMAIN d \cup {k} |-> IF x = k THEN v ELSE d[x]]

\* mutant: d.get(k, BaseEngineSpec)
SubscriptWithDefault(d, k) ==
    IF k \in DOMAIN d THEN Return("class", d[k]) ELSE Return("class", "BaseEngineSpec")

\* d[k]
Subscript(d, k) ==
    IF k \in DOMAIN d THEN Return("class", d[k]) ELSE Raise("KeyError")

\* the fragment of a grain for a column expression: the grain's template with
\* the placeholder substituted (done by the query layer, outside this module)
GrainFragment(cls, grain, col) ==
    LET grains == GetAttr(cls, "time_grains").val
    IN  IF \E i \in DOMAIN grains : grains[i].name = grain
        THEN LET i == CHOOSE j \in DOMAIN grains : grains[j].name = grain
             IN  Return("str", Replace(grains[i].function, "{col}", col))
        ELSE Raise("UnknownGrainError")

\* the outcome of one operation on a spec class
Perform(op, cls, args) ==
    CASE op = "time_grains" -> ReadTimeGrains(cls)
      [] op = "fragment"    -> GrainFragment(cls, args.grain, args.col)
      [] OTHER              -> CallMethod(cls, op, args)

-----------------------------------------------------------------------------
(* inputs *)

SpecClasses == { c \in ClassNames : c # "Grain" }

RegisteredIds == { ClassTable[c].attrs.engine.val : c \in SpecClasses }

LookupIds == RegisteredIds \cup {"not_a_real_engine", "POSTGRES", "BaseEngineSpec"}

TargetTypes == {"DATE", "date", "DateTime", "DATETIME", "TIMESTAMP", ""}

Dttm(y, mo, d, h, mi, sec, us) ==
    [year |-> y, month |-> mo, day |-> d, hour |-> h, minute |-> mi,
     second |-> sec, microsecond |-> us]

DttmValues ==
    { Dttm(2021, 1, 15, 0, 0, 0, 0),
      Dttm(2021, 1, 15, 0, 0, 0, 5),
      Dttm(1999, 12, 31, 23, 59, 59, 0),
      Dttm(1999, 12, 31, 23, 59, 59, 123456),
      Dttm(2016, 9, 5, 7, 3, 9, 0) }

Tables == {"birth_names"}

GrainNames == {"Time Column", "second", "day", "week", "month", "quarter",
               "5 minute", "week_start_sunday", "fortnight"}

Columns == {"ts", "t.created_at"}

-----------------------------------------------------------------------------
(* the state machine *)

NoCall == [op |-> "none", id |-> "", args |-> NoArgs, out |-> Return("none", "")]

Init ==
    /\ classes = ClassTable
    /\ pending = Globals
    /\ acc = EmptyDict
    /\ phase = "building"
    /\ engines = EmptyDict
    /\ last = NoCall

\* one item of the comprehension
\*   {o.engine: o for o in globals().values()
\*    if inspect.isclass(o) and issubclass(o, BaseEngineSpec)}
\* globals() is a dict: its values come in no particular order
ComprehensionStep(o) ==
    /\ phase = "building"
    /\ o \in pending
    /\ pending' = pending \ {o}
    /\ acc' = IF IsClass(o) /\ IsSubclass(o, "BaseEngineSpec")
              THEN DictSet(acc, GetAttr(o, "engine").val, o)
              ELSE acc
    /\ UNCHANGED <<classes, phase, engines, last>>

\* engines = {...}: the finished dict is bound to the module global
BindEngines ==
    /\ phase = "building"
    /\ pending = {}
    /\ engines' = acc
    /\ phase' = "sealed"
    /\ UNCHANGED <<classes, pending, acc, last>>

\* mutant: engines.pop(id)
LookupPop(id) ==
    /\ phase = "sealed"
    /\ last' = [op |-> "lookup", id |-> id, args |-> NoArgs,
                out |-> Subscript(engines, id)]
    /\ engines' = [k \in DOMAIN engines \ {id} |-> engines[k]]
    /\ UNCHANGED <<classes, pending, acc, phase>>

\* engines[id]
Lookup(id) ==
    /\ phase = "sealed"
    /\ last' = [op |-> "lookup", id |-> id, args |-> NoArgs,
                out |-> Subscript(engines, id)]
    /\ UNCHANGED <<classes, pending, acc, phase, engines>>

\* engines[id].<op>(...) for a registered id
SpecCall(op, id, args) ==
    /\ phase = "sealed"
    /\ id \in DOMAIN engines
    /\ last' = [op |-> op, id |-> id, args |-> args,
                out |-> Perform(op, engines[id], args)]
    /\ UNCHANGED <<classes, pending, acc, phase, engines>>

TimeGrains(id)     == SpecCall("time_grains", id, NoArgs)
EpochToDttm(id)    == SpecCall("epoch_to_dttm", id, NoArgs)
EpochMsToDttm(id)  == SpecCall("epoch_ms_to_dttm", id, NoArgs)
ConvertDttm(id, target_type, dttm) ==
    SpecCall("convert_dttm", id,
             [NoArgs EXCEPT !.target_type = target_type, !.dttm = dttm])
ExtraTableMetadata(id, table) ==
    SpecCall("extra_table_metadata", id, [NoArgs EXCEPT !.table = table])
Fragment(id, grain, col) ==
    SpecCall("fragment", id, [NoArgs EXCEPT !.grain = grain, !.col = col])

Next ==
    \/ \E o \in Globals : ComprehensionStep(o)
    \/ BindEngines
    \/ \E id \in LookupIds : Lookup(id)
    \/ \E id \in RegisteredIds : TimeGrains(id)
    \/ \E id \in RegisteredIds : EpochToDttm(id)
    \/ \E id \in RegisteredIds : EpochMsToDttm(id)
    \/ \E id \in RegisteredIds, t \in TargetTypes, d \in DttmValues :
            ConvertDttm(id, t, d)
    \/ \E id \in RegisteredIds, t \in Tables : ExtraTableMetadata(id, t)
    \/ \E id \in RegisteredIds, g \in GrainNames, c \in Columns :
            Fragment(id, g, c)

Spec == Init /\ [][Next]_vars

-----------------------------------------------------------------------------
(* properties *)

SpecOps == {"time_grains", "epoch_to_dttm", "epoch_ms_to_dttm", "convert_dttm",
            "extra_table_metadata", "fragment"}

\* C1: for every engine of the registry, epoch_ms_to_dttm() returns the
\* engine's epoch_to_dttm() template with each {col} replaced by
\* ({col}/1000.0), the rest of the seconds template unmodified.
C1_EpochMsDerivedFromSeconds ==
    (phase = "sealed" /\ last.op = "epoch_ms_to_dttm") =>
        LET seconds == CallMethod(engines[last.id], "epoch_to_dttm", NoArgs)
        IN  /\ seconds.kind = "return"
            /\ last.out = Return("str", Replace(seconds.val, "{col}", "({col}/1000.0)"))

C3_NoIdResolvesToBaseSpec ==
    last.op = "lookup" =>
        \/ last.out.kind = "raise"
        \/ last.out.val # "BaseEngineSpec"

\* C5: for every engine of the registry convert_dttm(target_type, dttm)
\* returns, for every target_type and datetime, a string that embeds the
\* datetime's date and time components; it never raises.
C5_ConvertDttmNeverFails ==
    (phase = "sealed" /\ last.op = "convert_dttm") =>
        /\ last.out.kind = "return"
        /\ Contains(last.out.val, FormatDate(last.args.dttm))
        /\ Contains(last.out.val, FormatTime(last.args.dttm))

\* C6: redshift and vertica give the same result as postgres for every
\* operation and input (grain catalog, epoch templates, convert_dttm,
\* fragments); oracle gives the same result as postgres for every operation
\* but convert_dttm, where it differs.
C6_DelegatesMatchPostgres ==
    (phase = "sealed" /\ last.op \in SpecOps) =>
        LET base == Perform(last.op, engines["postgres"], last.args)
        IN  /\ last.id \in {"redshift", "vertica"} => last.out = base
            /\ (last.id = "oracle" /\ last.op # "convert_dttm") => last.out = base
            /\ (last.id = "oracle" /\ last.op = "convert_dttm") => last.out # base

C6_Witness ==
    /\ phase = "sealed"
    /\ last.id = "vertica"
    /\ last.op = "epoch_ms_to_dttm"
    /\ last.out = Return("str", "(timestamp 'epoch' + ({col}/1000.0) * interval '1 second')")

NamesUnique(grains) ==
    \A i, j \in DOMAIN grains : grains[i].name = grains[j].name => i = j

\* C7: in the grain catalog of every registry entry, inherited catalogs
\* included, no two grains have the same name.
C7_GrainNamesUnique ==
    /\ \A id \in DOMAIN acc : NamesUnique(GetAttr(acc[id], "time_grains").val)
    /\ \A id \in DOMAIN engines : NamesUnique(GetAttr(engines[id], "time_grains").val)
    /\ last.op = "time_grains" => NamesUnique(last.out.val)

C7_Witness ==
    /\ phase = "sealed"
    /\ last.op = "time_grains"
    /\ last.id = "mssql"
    /\ last.out.kind = "return"
    /\ Len(last.out.val) = Len(MssqlTimeGrains)
    /\ \E i, j \in DOMAIN last.out.val : i # j

\* the target types of the inputs that equal DATE or DATETIME up to case
DateLike == {"DATE", "date", "DATETIME", "DateTime"}

\* C8: mysql's convert_dttm returns STR_TO_DATE('<YYYY-MM-DD HH:MM:SS>',
\* '%Y-%m-%d %H:%i:%s') exactly when target_type is DATE or DATETIME up to
\* case, and otherwise the bare quoted literal the base behaviour produces.
C8_MysqlConvertDttm ==
    (phase = "sealed" /\ last.op = "convert_dttm" /\ last.id = "mysql") =>
        LET lit  == BaseEngineSpec_convert_dttm("BaseEngineSpec",
                        last.args.target_type, last.args.dttm).val
            call == "STR_TO_DATE(" \o lit \o ", '%Y-%m-%d %H:%i:%s')"
        IN  /\ Len(lit) = Len("'YYYY-MM-DD HH:MM:SS'")
            /\ last.out.kind = "return"
            /\ (last.args.target_type \in DateLike) <=> (last.out.val = call)
            /\ (last.args.target_type \notin DateLike) <=> (last.out.val = lit)

C8_Witness ==
    /\ last.op = "convert_dttm"
    /\ last.id = "mysql"
    /\ last.args.target_type = "date"
    /\ last.args.dttm = Dttm(2021, 1, 15, 0, 0, 0, 0)
    /\ last.out.val = "STR_TO_DATE('2021-01-15 00:00:00', '%Y-%m-%d %H:%i:%s')"

\* C9: for every registered engine and every grain of its catalog, the
\* fragment for a column expression c is the grain's template with every
\* {col} replaced by c and holds no placeholder; for sqlite, grain "week" and
\* column "ts" it is DATE(ts, -strftime('%w', ts) || ' days').
C9_FragmentSubstitutesColumn ==
    (phase = "sealed" /\ last.op = "fragment") =>
        LET grains == GetAttr(engines[last.id], "time_grains").val
        IN  \A i \in DOMAIN grains :
                grains[i].name = last.args.grain =>
                    /\ last.out.kind = "return"
                    /\ last.out.val = Replace(grains[i].function, "{col}", last.args.col)
                    /\ ~Contains(last.out.val, "{col}")
                    /\ ~Contains(last.out.val, "{")
                    /\ Contains(last.out.val, last.args.col)
                    /\ (last.id = "sqlite" /\ last.args.grain = "week"
                            /\ last.args.col = "ts") =>
                        last.out.val = "DATE(ts, -strftime('%w', ts) || ' days')"

C9_Witness ==
    /\ last.op = "fragment"
    /\ last.id = "sqlite"
    /\ last.args.grain = "week"
    /\ last.args.col = "ts"
    /\ last.out = Return("str", "DATE(ts, -strftime('%w', ts) || ' days')")

\* C10: once the registry is built, no lookup and no spec operation changes
\* it: the registered ids, the spec of each id and every spec's attributes
\* (its grain catalog among them) stay as they were when the build ended, and
\* the registry never goes back to the building phase.
C10_SealedRegistryFrame ==
    [][phase = "sealed" =>
            /\ phase' = "sealed"
            /\ engines' = engines
            /\ classes' = classes
            /\ DOMAIN engines' = RegisteredIds]_vars

C10_Witness ==
    /\ phase = "sealed"
    /\ last.op = "convert_dttm"
    /\ last.out.kind = "return"
    /\ DOMAIN engines = RegisteredIds
    /\ engines["redshift"] = "RedshiftEngineSpec"
    /\ classes = ClassTable

====
